---- MODULE Spec2Model ----
(***************************************************************************)
(* Batch orchestration engine of the hospital bulk-import service:         *)
(* HospitalBatchService (services/batch_service.py) and the request        *)
(* handlers of main.py that drive it.                                      *)
(*                                                                         *)
(* One step of the model is what the asyncio event loop runs between two   *)
(* suspension points: a request handler from entry to return, or a pass    *)
(* (background task) from the resolution of one remote call to the next    *)
(* remote call it issues (or to its return).  Queue.put on an unbounded    *)
(* asyncio.Queue never suspends, so a broadcast is part of the step that   *)
(* makes it.  Leaving an `async with httpx.AsyncClient` block awaits the   *)
(* client's close, which may suspend the pass: after the row loop and      *)
(* after the activation block.                                             *)
(*                                                                         *)
(* Left out: wall-clock fields (started_at, finished_at,                   *)
(* processing_time_seconds), the optional phone column, and the text of    *)
(* error bodies; no modelled decision reads them.  The remote answers a    *)
(* create with a 200/201 carrying a JSON object, with another status, or   *)
(* with a transport error (httpx.RequestError).                            *)
(***************************************************************************)
EXTENDS Integers, Sequences, FiniteSets, TLC

\* ---------------------------------------------------------------- bounds
MaxRows == 2        \* rows uploaded, over all batches
MaxResumes == 1     \* retry passes scheduled, over all batches
NumBatches == 1     \* batches started
MaxSubs == 2        \* WebSocket connections accepted

BatchIds == 1..NumBatches      \* uuid4 tokens that main.py can draw
UnknownId == NumBatches + 1    \* a batch id no upload ever returned

None == "None"
NoName == <<None>>             \* None where a string is expected

\* ------------------------------------------------------------ row values
\* A CSV field is a string: a sequence of characters.
SP == " "

RECURSIVE LStrip(_)
LStrip(s) == IF s # <<>> /\ Head(s) = SP THEN LStrip(Tail(s)) ELSE s

RECURSIVE RStrip(_)
RStrip(s) ==
  IF s # <<>> /\ s[Len(s)] = SP THEN RStrip(SubSeq(s, 1, Len(s) - 1)) ELSE s

\* str.strip()
Strip(s) == RStrip(LStrip(s))

\* The rows an upload is made of.
RawRows ==
  { [name |-> <<SP, "a">>, address |-> <<"b", SP>>],
    [name |-> <<SP>>,      address |-> <<"b">>],
    [name |-> <<"a">>,     address |-> <<>>] }

RowLists == UNION { [1..n -> RawRows] : n \in 1..MaxRows }

\* config.MAX_HOSPITALS (its default)
MAX_HOSPITALS == 20

\* An upload of one row more than the maximum, and every upload: the rows
\* csv.DictReader yields, none for an empty file.
TooManyRows ==
  [i \in 1..(MAX_HOSPITALS + 1) |-> [name |-> <<"a">>, address |-> <<"b">>]]

Uploads == RowLists \cup {<<>>, TooManyRows}

\* ---------------------------------------------------------------- status
INVALID == "invalid_row_missing_name_or_address"
REQUEST_ERROR == "request_error"
CREATE_FAILED == "create_failed"
CREATED == "created"
ACTIVATED == "created_and_activated"

\* What the remote answers to POST /hospitals/ and to PATCH .../activate.
CreateResults == {"ok", "fail", "error"}
ActivateResults == {"ok", "fail", "error"}

VARIABLES
  batch_progress,      \* batch id -> progress record (only started batches)
  batch_subscribers,   \* batch id -> sequence of queue ids
  queues,              \* queue id -> the asyncio.Queue of one connection
  tasks,               \* background tasks created and not yet returned
  calls,               \* batch id -> remote calls issued, in order
  passes,              \* batch id -> passes scheduled so far
  reply                \* what the request handler of this step answered

vars == <<batch_progress, batch_subscribers, queues, tasks, calls, passes, reply>>

NoReply == [op |-> "none"]

\* dict merge {**e, **n}
Merge(e, n) ==
  [k \in DOMAIN e \cup DOMAIN n |-> IF k \in DOMAIN n THEN n[k] ELSE e[k]]

\* bool(d) of a dict
Truthy(d) == DOMAIN d # {}

\* ------------------------------------------------------------- messages
\* A queued message holds a reference to its data: `alias` says that the
\* dict is the one stored in batch_progress (the consumer serialises what
\* it holds at that time); otherwise the dict is the message's own.
RowUpdate(entry, alias) == [type |-> "row_update", data |-> entry, alias |-> alias]
BatchActivated == [type |-> "batch_activated", data |-> [batch_activated |-> TRUE], alias |-> FALSE]
Completed(data) == [type |-> "completed", data |-> data, alias |-> TRUE]

\* A remote call issued for a batch during its n-th pass, and how the
\* remote answered it.
Post(n, idx) == [op |-> "create", pass |-> n, row |-> idx, res |-> "pending"]
Patch(n) == [op |-> "activate", pass |-> n, row |-> 0, res |-> "pending"]

\* The pending call of pass n is answered with res.
Answered(log, n, res) ==
  [i \in DOMAIN log |->
     IF log[i].pass = n /\ log[i].res = "pending"
     THEN [log[i] EXCEPT !.res = res] ELSE log[i]]

\* ------------------------------------------------------------ first pass
\* The local state of a pass between suspension points: `data` is
\* batch_progress[batch_id], `out` the messages broadcast and `sent` the
\* remote calls issued since the pass was last resumed.
Locals(data, processed, failed) ==
  [data |-> data, processed |-> processed, failed |-> failed,
   idx |-> 0, pc |-> "run", activated |-> FALSE, out |-> <<>>, sent |-> <<>>]

Payload(row) == [name |-> Strip(row.name), address |-> Strip(row.address)]

\* Mutant: the entry is broadcast but not stored.
AppendEntry_broadcast_only(c, entry) ==
  [c EXCEPT !.out = Append(@, RowUpdate(entry, TRUE))]

\* self.batch_progress[batch_id]["hospitals"].append(entry); broadcast
AppendEntry(c, entry) ==
  [c EXCEPT !.data.hospitals = Append(@, entry),
            !.out = Append(@, RowUpdate(entry, TRUE))]

\* for idx, row in enumerate(rows, start=1): ... up to the next POST
RECURSIVE first_loop(_, _, _, _)
first_loop(c, rows, idx, n) ==
  IF idx > Len(rows) THEN [c EXCEPT !.idx = idx, !.pc = "close"]
  ELSE
    LET payload == Payload(rows[idx])
        name == payload.name
        entry == [row |-> idx, hospital_id |-> None,
                  name |-> IF name = <<>> THEN NoName ELSE name,
                  status |-> INVALID, payload |-> payload]
        failed == c.failed + 1
    IN IF name = <<>> \/ payload.address = <<>>
       THEN first_loop(
              [AppendEntry(c, entry) EXCEPT !.failed = failed,
                                            !.data.failed_hospitals = failed],
              rows, idx + 1, n)
       ELSE [c EXCEPT !.idx = idx, !.pc = "post",
                      !.sent = Append(@, Post(n, idx))]

\* Mutant: a transport error is recorded but not counted as a failure.
first_response_error_uncounted(c, rows, idx, res) ==
  LET payload == Payload(rows[idx])
      name == payload.name
      base == [row |-> idx, hospital_id |-> None, name |-> name,
               status |-> REQUEST_ERROR, payload |-> payload]
  IN CASE res = "error" -> AppendEntry(c, base)
       [] res = "ok" ->
            [AppendEntry(c, [base EXCEPT !.hospital_id = "id", !.status = CREATED])
             EXCEPT !.processed = c.processed + 1,
                    !.data.processed_hospitals = c.processed + 1]
       [] res = "fail" ->
            [AppendEntry(c, Merge(base, [status |-> CREATE_FAILED, error |-> "err"]))
             EXCEPT !.failed = c.failed + 1,
                    !.data.failed_hospitals = c.failed + 1]

\* the POST for rows[idx] resolved with `res`
first_response(c, rows, idx, res) ==
  LET payload == Payload(rows[idx])
      name == payload.name
      base == [row |-> idx, hospital_id |-> None, name |-> name,
               status |-> REQUEST_ERROR, payload |-> payload]
  IN CASE res = "error" ->
            [AppendEntry(c, base) EXCEPT
               !.failed = c.failed + 1,
               !.data.failed_hospitals = c.failed + 1]
       [] res = "ok" ->
            [AppendEntry(c, [base EXCEPT !.hospital_id = "id", !.status = CREATED])
             EXCEPT !.processed = c.processed + 1,
                    !.data.processed_hospitals = c.processed + 1]
       [] res = "fail" ->
            [AppendEntry(c, Merge(base, [status |-> CREATE_FAILED, error |-> "err"]))
             EXCEPT !.failed = c.failed + 1,
                    !.data.failed_hospitals = c.failed + 1]

\* for r in hospitals: if r["status"] == "created": r["status"] = ...
MarkActivated(hospitals) ==
  [i \in DOMAIN hospitals |->
     IF hospitals[i].status = CREATED
     THEN [hospitals[i] EXCEPT !.status = ACTIVATED]
     ELSE hospitals[i]]

\* batch_activated = act_resp.status_code in (200, 204); an exception
\* ("error") leaves it False
Activated(res) == res = "ok"

\* the PATCH .../activate resolved with `res`, up to the client's close
activate_response(c, res) ==
  IF Activated(res)
  THEN [c EXCEPT !.data.hospitals = MarkActivated(@),
                 !.out = Append(@, BatchActivated),
                 !.activated = TRUE, !.pc = "closed"]
  ELSE [c EXCEPT !.activated = FALSE, !.pc = "closed"]

\* Mutant: the final update is not broadcast.
finalize_silent(c, batch_activated) ==
  LET data == [c.data EXCEPT !.batch_activated = batch_activated,
                             !.status = "completed"]
  IN [c EXCEPT !.data = data, !.pc = "done"]

\* Mutant: the final update leaves the status as it was.
finalize_keeps_status(c, batch_activated) ==
  LET data == [c.data EXCEPT !.batch_activated = batch_activated]
  IN [c EXCEPT !.data = data, !.pc = "done", !.out = Append(@, Completed(data))]

\* batch_progress[batch_id].update({...}); broadcast "completed"
finalize(c, batch_activated) ==
  LET data == [c.data EXCEPT !.batch_activated = batch_activated,
                             !.status = "completed"]
  IN [c EXCEPT !.data = data, !.pc = "done", !.out = Append(@, Completed(data))]

\* Mutant: the first pass activates whatever failed.
first_check_always(c) == TRUE

\* batch_activated = False; if failed == 0: PATCH ...
first_check(c) == c.failed = 0

first_tail(c, n) ==
  IF first_check(c)
  THEN [c EXCEPT !.pc = "patch", !.sent = Append(@, Patch(n))]
  ELSE finalize(c, FALSE)

\* ------------------------------------------------------------ retry pass
\* _update_stored_entry
RECURSIVE update_from(_, _, _, _)
update_from(lst, i, row_idx, new_entry) ==
  IF i > Len(lst) THEN lst
  ELSE IF lst[i].row = row_idx
       THEN [lst EXCEPT ![i] = Merge(lst[i], new_entry)]
       ELSE update_from(lst, i + 1, row_idx, new_entry)

\* Mutant: the new entry is added at the end of the list.
update_stored_entry_appends(lst, row_idx, new_entry) == Append(lst, new_entry)

update_stored_entry(lst, row_idx, new_entry) ==
  update_from(lst, 1, row_idx, new_entry)

UpdateEntry(c, idx, entry_update) ==
  [c EXCEPT !.data.hospitals = update_stored_entry(@, idx, entry_update),
            !.out = Append(@, RowUpdate(entry_update, FALSE))]

\* for entry in entries: ... up to the next POST
retry_loop(c, entries, k, n) ==
  IF k > Len(entries) THEN [c EXCEPT !.idx = k, !.pc = "close"]
  ELSE [c EXCEPT !.idx = k, !.pc = "post",
                 !.sent = Append(@, Post(n, entries[k].row))]

\* the POST for entries[k] resolved with `res`
retry_response(c, entries, k, res) ==
  LET idx == entries[k].row
      payload == entries[k].payload
      base == [row |-> idx, hospital_id |-> None, name |-> payload.name,
               status |-> REQUEST_ERROR, payload |-> payload]
  IN CASE res = "error" ->
            [UpdateEntry(c, idx, base) EXCEPT
               !.failed = c.failed + 1,
               !.data.failed_hospitals = c.failed + 1]
       [] res = "ok" ->
            [UpdateEntry(c, idx, [base EXCEPT !.hospital_id = "id", !.status = CREATED])
             EXCEPT !.processed = c.processed + 1,
                    !.data.processed_hospitals = c.processed + 1]
       [] res = "fail" ->
            [UpdateEntry(c, idx, Merge(base, [status |-> CREATE_FAILED, error |-> "err"]))
             EXCEPT !.failed = c.failed + 1,
                    !.data.failed_hospitals = c.failed + 1]

\* Mutant: remaining_failures does not count the invalid rows.
retry_check_skips_invalid(c) ==
  \A i \in DOMAIN c.data.hospitals :
     c.data.hospitals[i].status \in {CREATED, ACTIVATED, INVALID}

\* remaining_failures == 0
retry_check(c) ==
  \A i \in DOMAIN c.data.hospitals :
     c.data.hospitals[i].status \in {CREATED, ACTIVATED}

retry_tail(c, n) ==
  IF retry_check(c)
  THEN [c EXCEPT !.pc = "patch", !.sent = Append(@, Patch(n))]
  ELSE finalize(c, FALSE)

\* ------------------------------------------------------ request handlers
Task(batch_id, kind, items, n) ==
  [batch_id |-> batch_id, kind |-> kind, items |-> items, pass |-> n,
   idx |-> 0, processed |-> 0, failed |-> 0, activated |-> FALSE,
   pc |-> "scheduled"]

\* start_batch: the record it stores
InitialRecord(batch_id, rows) ==
  [batch_id |-> batch_id,
   total_hospitals |-> Len(rows),
   processed_hospitals |-> 0,
   failed_hospitals |-> 0,
   batch_activated |-> FALSE,
   hospitals |-> <<>>,
   status |-> "processing"]

\* Mutant: the status of an invalid row is not recognised.
Retryable_invalid_too(entry) ==
  /\ Truthy(entry.payload)
  /\ entry.status \notin {CREATED, ACTIVATED}

\* Mutant: rows of an activated batch are retried too.
Retryable_activated_too(entry) ==
  /\ Truthy(entry.payload)
  /\ entry.status \notin {CREATED, INVALID}

\* Mutant: rows already created are retried too.
Retryable_created_too(entry) ==
  /\ Truthy(entry.payload)
  /\ entry.status # INVALID

\* resume_batch: entries to retry, in list order
Retryable(entry) ==
  /\ Truthy(entry.payload)
  /\ entry.status \notin {CREATED, ACTIVATED, INVALID}

RECURSIVE Filter(_, _)
Filter(lst, i) ==
  IF i > Len(lst) THEN <<>>
  ELSE (IF Retryable(lst[i]) THEN <<lst[i]>> ELSE <<>>) \o Filter(lst, i + 1)

\* Mutant: every entry is retried, whatever its status.
to_retry_all(data) == data.hospitals

to_retry(data) == Filter(data.hospitals, 1)

\* Mutant: the status is set before the retry set is looked at.
resume_batch_marks_first(progress, batch_id, n) ==
  IF batch_id \notin DOMAIN progress
  THEN [raise |-> "KeyError", progress |-> progress, spawn |-> <<>>]
  ELSE IF progress[batch_id].status = "processing"
  THEN [raise |-> "RuntimeError", progress |-> progress, spawn |-> <<>>]
  ELSE IF to_retry(progress[batch_id]) = <<>>
  THEN [raise |-> None, message |-> "nothing_to_retry",
        progress |-> [progress EXCEPT ![batch_id].status = "processing"],
        spawn |-> <<>>]
  ELSE [raise |-> None, status |-> "retry_scheduled",
        retry_count |-> Len(to_retry(progress[batch_id])),
        progress |-> [progress EXCEPT ![batch_id].status = "processing"],
        spawn |-> <<Task(batch_id, "retry", to_retry(progress[batch_id]), n)>>]

\* Mutant: no "batch already processing" guard.
resume_batch_no_guard(progress, batch_id, n) ==
  IF batch_id \notin DOMAIN progress
  THEN [raise |-> "KeyError", progress |-> progress, spawn |-> <<>>]
  ELSE IF to_retry(progress[batch_id]) = <<>>
  THEN [raise |-> None, message |-> "nothing_to_retry",
        progress |-> progress, spawn |-> <<>>]
  ELSE [raise |-> None, status |-> "retry_scheduled",
        retry_count |-> Len(to_retry(progress[batch_id])),
        progress |-> [progress EXCEPT ![batch_id].status = "processing"],
        spawn |-> <<Task(batch_id, "retry", to_retry(progress[batch_id]), n)>>]

\* resume_batch: what it raises or returns, the store it leaves and the
\* task it creates (`n` numbers the pass it would schedule)
resume_batch(progress, batch_id, n) ==
  IF batch_id \notin DOMAIN progress
  THEN [raise |-> "KeyError", progress |-> progress, spawn |-> <<>>]
  ELSE IF progress[batch_id].status = "processing"
  THEN [raise |-> "RuntimeError", progress |-> progress, spawn |-> <<>>]
  ELSE IF to_retry(progress[batch_id]) = <<>>
  THEN [raise |-> None, message |-> "nothing_to_retry",
        progress |-> progress, spawn |-> <<>>]
  ELSE [raise |-> None, status |-> "retry_scheduled",
        retry_count |-> Len(to_retry(progress[batch_id])),
        progress |-> [progress EXCEPT ![batch_id].status = "processing"],
        spawn |-> <<Task(batch_id, "retry", to_retry(progress[batch_id]), n)>>]

\* main.resume_batch: the HTTP answer
ResumeReply(batch_id, r) ==
  IF r.raise = "KeyError" THEN [op |-> "resume", batch_id |-> batch_id, code |-> 404]
  ELSE IF r.raise = "RuntimeError" THEN [op |-> "resume", batch_id |-> batch_id, code |-> 409]
  ELSE IF "status" \in DOMAIN r /\ r.status = "retry_scheduled"
  THEN [op |-> "resume", batch_id |-> batch_id, code |-> 202,
        status |-> r.status, retry_count |-> r.retry_count]
  ELSE [op |-> "resume", batch_id |-> batch_id, code |-> 200, message |-> r.message]

\* ----------------------------------------------------------------- state
Init ==
  /\ batch_progress = <<>>
  /\ batch_subscribers = [b \in BatchIds \cup {UnknownId} |-> <<>>]
  /\ queues = <<>>
  /\ tasks = <<>>
  /\ calls = [b \in BatchIds |-> <<>>]
  /\ passes = [b \in BatchIds |-> 0]
  /\ reply = NoReply

\* Mutant: the message goes to the handles of every batch.
Broadcast_to_all(batch_id, out) ==
  [q \in DOMAIN queues |->
     IF \E b \in DOMAIN batch_subscribers :
          \E i \in DOMAIN batch_subscribers[b] : batch_subscribers[b][i] = q
     THEN [queues[q] EXCEPT !.items = @ \o out]
     ELSE queues[q]]

\* Mutant: the messages are put at the front of the queues.
Broadcast_at_front(batch_id, out) ==
  [q \in DOMAIN queues |->
     IF \E i \in DOMAIN batch_subscribers[batch_id] :
          batch_subscribers[batch_id][i] = q
     THEN [queues[q] EXCEPT !.items = out \o @]
     ELSE queues[q]]

\* _broadcast_progress, once per message of `out`
Broadcast(batch_id, out) ==
  [q \in DOMAIN queues |->
     IF \E i \in DOMAIN batch_subscribers[batch_id] :
          batch_subscribers[batch_id][i] = q
     THEN [queues[q] EXCEPT !.items = @ \o out]
     ELSE queues[q]]

\* Rows uploaded and retry passes scheduled so far (for the bounds).
RECURSIVE Sum(_, _)
Sum(f, S) ==
  IF S = {} THEN 0
  ELSE LET x == CHOOSE y \in S : TRUE IN f[x] + Sum(f, S \ {x})

Uploaded == Sum([b \in DOMAIN batch_progress |-> batch_progress[b].total_hospitals],
                DOMAIN batch_progress)
Resumed == Sum(passes, BatchIds) - Cardinality(DOMAIN batch_progress)

Remove(seq, i) == SubSeq(seq, 1, i - 1) \o SubSeq(seq, i + 1, Len(seq))

\* str(uuid.uuid4()): a token no earlier upload drew.  The tokens are
\* interchangeable, so the model draws them in order.
FreshId == Cardinality(DOMAIN batch_progress) + 1

\* Mutant: the row count is not compared with the maximum.
bulk_check_no_max(rows) ==
  IF Len(rows) = 0 THEN "CSV is empty or missing header row" ELSE None

\* bulk_create_hospitals: the detail of the HTTPException(400) the parsed
\* rows are rejected with, or None
bulk_check(rows) ==
  IF Len(rows) = 0 THEN "CSV is empty or missing header row"
  ELSE IF Len(rows) > MAX_HOSPITALS THEN "Maximum hospitals allowed per upload"
  ELSE None

\* POST /hospitals/bulk, accepted.  The rows drawn from RowLists count
\* against MaxRows.
StartBatch(batch_id, rows) ==
  /\ bulk_check(rows) = None
  /\ batch_id = FreshId
  /\ rows \in RowLists => Uploaded + Len(rows) <= MaxRows
  /\ batch_progress' = batch_progress @@ (batch_id :> InitialRecord(batch_id, rows))
  /\ tasks' = Append(tasks, Task(batch_id, "first", rows, 1))
  /\ passes' = [passes EXCEPT ![batch_id] = 1]
  /\ reply' = [op |-> "bulk", batch_id |-> batch_id, code |-> 202,
               total_hospitals |-> Len(rows), status |-> "started"]
  /\ UNCHANGED <<batch_subscribers, queues, calls>>

\* POST /hospitals/bulk, rejected before uuid4 and start_batch
BulkRejected(rows) ==
  /\ bulk_check(rows) # None
  /\ reply' = [op |-> "bulk", code |-> 400, detail |-> bulk_check(rows)]
  /\ UNCHANGED <<batch_progress, batch_subscribers, queues, tasks, calls, passes>>

\* POST /hospitals/batch/{batch_id}/resume
ResumeBatch(batch_id) ==
  LET n == IF batch_id \in BatchIds THEN passes[batch_id] + 1 ELSE 0
      r == resume_batch(batch_progress, batch_id, n)
  IN /\ r.spawn # <<>> => Resumed < MaxResumes
     /\ batch_progress' = r.progress
     /\ tasks' = tasks \o r.spawn
     /\ passes' = IF r.spawn # <<>>
                  THEN [passes EXCEPT ![batch_id] = n] ELSE passes
     /\ reply' = ResumeReply(batch_id, r)
     /\ UNCHANGED <<batch_subscribers, queues, calls>>

\* What a pass leaves when it next suspends or returns.
Commit(t, c, res) ==
  LET task == tasks[t]
      b == task.batch_id
  IN /\ batch_progress' = [batch_progress EXCEPT ![b] = c.data]
     /\ queues' = Broadcast(b, c.out)
     /\ calls' = [calls EXCEPT ![b] = Answered(@, task.pass, res) \o c.sent]
     /\ tasks' = IF c.pc = "done" THEN Remove(tasks, t)
                 ELSE [tasks EXCEPT ![t] =
                         [task EXCEPT !.idx = c.idx, !.pc = c.pc,
                                      !.processed = c.processed,
                                      !.failed = c.failed,
                                      !.activated = c.activated]]
     /\ reply' = NoReply
     /\ UNCHANGED <<batch_subscribers, passes>>

\* The locals of task as it resumes.
TaskLocals(task) ==
  [Locals(batch_progress[task.batch_id], task.processed, task.failed)
     EXCEPT !.idx = task.idx, !.activated = task.activated]

\* the event loop first runs a created task
TaskStart(t) ==
  LET task == tasks[t]
      data == batch_progress[task.batch_id]
  IN /\ task.pc = "scheduled"
     /\ Commit(t,
          IF task.kind = "first"
          THEN first_loop(Locals(data, 0, 0), task.items, 1, task.pass)
          ELSE retry_loop(Locals(data, data.processed_hospitals,
                                 data.failed_hospitals),
                          task.items, 1, task.pass),
          None)

\* client.post resolves and the pass runs on to its next suspension
CreateResolves(t, res) ==
  LET task == tasks[t]
  IN /\ task.pc = "post"
     /\ Commit(t,
          IF task.kind = "first"
          THEN first_loop(first_response(TaskLocals(task), task.items, task.idx, res),
                          task.items, task.idx + 1, task.pass)
          ELSE retry_loop(retry_response(TaskLocals(task), task.items, task.idx, res),
                          task.items, task.idx + 1, task.pass),
          res)

\* the client of the row loop is closed: the activation check, then the
\* PATCH or the final update
LoopClientCloses(t) ==
  LET task == tasks[t]
  IN /\ task.pc = "close"
     /\ Commit(t,
          IF task.kind = "first" THEN first_tail(TaskLocals(task), task.pass)
          ELSE retry_tail(TaskLocals(task), task.pass),
          None)

\* client.patch resolves
ActivateResolves(t, res) ==
  LET task == tasks[t]
  IN /\ task.pc = "patch"
     /\ Commit(t, activate_response(TaskLocals(task), res), res)

\* the client of the activation is closed: the final update
ActivateClientCloses(t) ==
  LET task == tasks[t]
  IN /\ task.pc = "closed"
     /\ Commit(t, finalize(TaskLocals(task), task.activated), None)

\* ---------------------------------------------------------- subscribers
\* subscribe: q = asyncio.Queue(); setdefault(batch_id, []).append(q)
subscribe(subs, batch_id, q) == [subs EXCEPT ![batch_id] = Append(@, q)]

RECURSIVE RemoveFirst(_, _)
RemoveFirst(lst, q) ==
  IF lst = <<>> THEN <<>>
  ELSE IF Head(lst) = q THEN Tail(lst)
  ELSE <<Head(lst)>> \o RemoveFirst(Tail(lst), q)

\* unsubscribe: if subs and q in subs: subs.remove(q)
unsubscribe(subs, batch_id, q) ==
  [subs EXCEPT ![batch_id] = RemoveFirst(@, q)]

\* What send_json serialises when it is handed message m of batch b.
Resolve(b, m) ==
  IF ~m.alias THEN m
  ELSE IF m.type = "completed" THEN [m EXCEPT !.data = batch_progress[b]]
  ELSE IF m.data.status = CREATED
       THEN [m EXCEPT !.data = batch_progress[b].hospitals[m.data.row]]
       ELSE m

\* No pass of the batch has begun to run: the batch is not started, or its
\* first task is created and was not yet run.
NotBegun(batch_id) ==
  \/ batch_id \notin DOMAIN batch_progress
  \/ \E t \in DOMAIN tasks :
        /\ tasks[t].batch_id = batch_id
        /\ tasks[t].kind = "first" /\ tasks[t].pc = "scheduled"

\* Mutant: the handler sends the snapshot first and registers its queue in
\* a later step, so that a pass can publish in between.
WsConnect_split(batch_id) ==
  LET q == Len(queues) + 1 IN
  \/ /\ Len(queues) < MaxSubs
     /\ queues' = Append(queues, [batch_id |-> batch_id, items |-> <<>>, open |-> TRUE,
                                  early |-> NotBegun(batch_id)])
     /\ reply' = IF batch_id \in DOMAIN batch_progress
                  THEN [op |-> "ws", queue |-> q, type |-> "current",
                        data |-> batch_progress[batch_id]]
                  ELSE [op |-> "ws", queue |-> q, type |-> "accepted"]
     /\ UNCHANGED <<batch_progress, batch_subscribers, tasks, calls, passes>>
  \/ \E r \in DOMAIN queues :
        /\ queues[r].open /\ queues[r].batch_id = batch_id
        /\ \A i \in DOMAIN batch_subscribers[batch_id] :
              batch_subscribers[batch_id][i] # r
        /\ batch_subscribers' = subscribe(batch_subscribers, batch_id, r)
        /\ UNCHANGED <<batch_progress, queues, tasks, calls, passes, reply>>

\* websocket_batch_progress from accept to its first q.get().  `early`
\* records, for the properties, that the handler subscribed before any pass
\* of the batch had begun.
WsConnect(batch_id) ==
  LET q == Len(queues) + 1 IN
  /\ Len(queues) < MaxSubs
  /\ batch_subscribers' = subscribe(batch_subscribers, batch_id, q)
  /\ queues' = Append(queues, [batch_id |-> batch_id, items |-> <<>>, open |-> TRUE,
                               early |-> NotBegun(batch_id)])
  /\ reply' = IF batch_id \in DOMAIN batch_progress
               THEN [op |-> "ws", queue |-> q, type |-> "current",
                     data |-> batch_progress[batch_id]]
               ELSE [op |-> "ws", queue |-> q, type |-> "accepted"]
  /\ UNCHANGED <<batch_progress, tasks, calls, passes>>

\* message = await q.get(); await websocket.send_json(message)
WsReceive(q) ==
  /\ queues[q].open
  /\ queues[q].items # <<>>
  /\ queues' = [queues EXCEPT ![q].items = Tail(@)]
  /\ reply' = [op |-> "ws", queue |-> q,
               type |-> Head(queues[q].items).type,
               data |-> Resolve(queues[q].batch_id, Head(queues[q].items)).data]
  /\ UNCHANGED <<batch_progress, batch_subscribers, tasks, calls, passes>>

\* WebSocketDisconnect: finally unsubscribe(batch_id, q)
WsDisconnect(q) ==
  /\ queues[q].open
  /\ batch_subscribers' = unsubscribe(batch_subscribers, queues[q].batch_id, q)
  /\ queues' = [queues EXCEPT ![q].open = FALSE, ![q].items = <<>>]
  /\ reply' = [op |-> "ws", queue |-> q, type |-> "closed"]
  /\ UNCHANGED <<batch_progress, tasks, calls, passes>>

Next ==
  \/ \E b \in BatchIds, rows \in Uploads : StartBatch(b, rows)
  \/ \E b \in BatchIds \cup {UnknownId} : ResumeBatch(b)
  \/ \E t \in DOMAIN tasks : TaskStart(t)
  \/ \E t \in DOMAIN tasks, res \in CreateResults : CreateResolves(t, res)
  \/ \E t \in DOMAIN tasks : LoopClientCloses(t)
  \/ \E t \in DOMAIN tasks, res \in ActivateResults : ActivateResolves(t, res)
  \/ \E t \in DOMAIN tasks : ActivateClientCloses(t)

Spec == Init /\ [][Next]_vars

\* The service with the uploads that the entry point rejects.
BulkNext ==
  \/ Next
  \/ \E rows \in Uploads : BulkRejected(rows)

BulkSpec == Init /\ [][BulkNext]_vars

\* The service with WebSocket consumers.
FanNext ==
  \/ Next
  \/ \E b \in BatchIds \cup {UnknownId} : WsConnect(b)
  \/ \E q \in DOMAIN queues : WsReceive(q)
  \/ \E q \in DOMAIN queues : WsDisconnect(q)

FanSpec == Init /\ [][FanNext]_vars

\* A step of the pass of batch b.
PassStep(b) ==
  \E t \in DOMAIN tasks :
     /\ tasks[t].batch_id = b
     /\ \/ TaskStart(t)
        \/ \E res \in CreateResults : CreateResolves(t, res)
        \/ LoopClientCloses(t)
        \/ \E res \in ActivateResults : ActivateResolves(t, res)
        \/ ActivateClientCloses(t)

\* The event loop runs every ready task and every remote call resolves
\* (each carries the HTTPX_TIMEOUT_SECONDS timeout); nothing makes a
\* consumer read its queue.
\* LiveNext groups the steps of a batch's passes into one action per
\* batch, the unit the fairness condition speaks of.
LiveNext ==
  \/ \E b \in BatchIds, rows \in Uploads : StartBatch(b, rows)
  \/ \E b \in BatchIds \cup {UnknownId} : ResumeBatch(b)
  \/ \E b \in BatchIds : PassStep(b)
  \/ \E b \in BatchIds \cup {UnknownId} : WsConnect(b)
  \/ \E q \in DOMAIN queues : WsReceive(q)
  \/ \E q \in DOMAIN queues : WsDisconnect(q)

LiveSpec ==
  Init /\ [][LiveNext]_vars /\ \A b \in BatchIds : WF_vars(PassStep(b))

\* ================================================================ claims
Started == DOMAIN batch_progress
Rec(b) == batch_progress[b]
Outcomes(b) == {Rec(b).hospitals[i] : i \in DOMAIN Rec(b).hospitals}
Count(b, statuses) ==
  Cardinality({i \in DOMAIN Rec(b).hospitals : Rec(b).hospitals[i].status \in statuses})
CallsOf(b, op, n) ==
  SelectSeq(calls[b], LAMBDA x : x.op = op /\ x.pass = n)
AnyCall(b, op, n, results) ==
  \E i \in DOMAIN calls[b] :
     calls[b][i].op = op /\ calls[b][i].pass = n /\ calls[b][i].res \in results
AllCalls(b, op, n, results) ==
  \A i \in DOMAIN calls[b] :
     calls[b][i].op = op /\ calls[b][i].pass = n => calls[b][i].res \in results

\* The case of C1: every row of b was submittable, the first pass left a
\* create_failed or request_error row, one retry pass ran, every create of it
\* succeeded, the activation call succeeded, and the pass completed.
C1_Case(b) ==
  /\ Rec(b).status = "completed"
  /\ passes[b] = 2
  /\ Count(b, {INVALID}) = 0
  /\ AnyCall(b, "create", 1, {"fail", "error"})
  /\ AllCalls(b, "create", 2, {"ok"})
  /\ AllCalls(b, "activate", 2, {"ok"})

\* C1: after a first pass with a failed row, a retry pass in which every
\* create and the activation succeed completes with failedCount = 0,
\* processedCount = number of rows and activated = true.
C1_RetrySuccessCounts ==
  \A b \in Started :
     C1_Case(b) =>
       /\ Rec(b).failed_hospitals = 0
       /\ Rec(b).processed_hospitals = Rec(b).total_hospitals
       /\ Rec(b).batch_activated

\* C2: whenever status = completed, processedCount + failedCount equals
\* totalCount minus the number of invalid_row outcomes.
C2_SumExcludesInvalid ==
  \A b \in Started :
     Rec(b).status = "completed" =>
       Rec(b).processed_hospitals + Rec(b).failed_hospitals
         = Rec(b).total_hospitals - Count(b, {INVALID})

\* C3: the sum processedCount + failedCount that the first pass completes
\* with (every row counted once, as processed or as failed) is the sum every
\* retry pass completes with.
C3_RetryKeepsSum ==
  \A b \in Started :
     Rec(b).status = "completed" =>
       Rec(b).processed_hospitals + Rec(b).failed_hospitals
         = Rec(b).total_hospitals

InFlight(b) == {t \in DOMAIN tasks : tasks[t].batch_id = b}

\* C4: a batch never has two passes in flight, and while its status is
\* processing it has exactly one.
C4_OnePassInFlight ==
  \A b \in BatchIds :
     /\ Cardinality(InFlight(b)) <= 1
     /\ b \in Started /\ Rec(b).status = "processing"
          => Cardinality(InFlight(b)) = 1

\* A resume is answered 409 while a retry pass of the batch awaits a create.
C4_Witness ==
  \E t \in DOMAIN tasks :
     /\ tasks[t].kind = "retry" /\ tasks[t].pc = "post"
     /\ reply.op = "resume" /\ reply.code = 409
     /\ reply.batch_id = tasks[t].batch_id

\* C5: no step takes a batch's activated flag from true to false.
C5_ActivatedIrreversible ==
  [][\A b \in Started :
       Rec(b).batch_activated => batch_progress'[b].batch_activated]_vars

\* A batch activated by a retry pass is resumed again.
C5_Witness ==
  \E b \in Started :
     /\ Rec(b).batch_activated /\ passes[b] = 2
     /\ reply.op = "resume" /\ reply.batch_id = b /\ reply.code = 200

AllSubmittedCreated(r) ==
  \A i \in DOMAIN r.hospitals :
     r.hospitals[i].status # INVALID => r.hospitals[i].status = CREATED

ActivateIssued(b) ==
  /\ Len(calls'[b]) > Len(calls[b])
  /\ calls'[b][Len(calls'[b])].op = "activate"

C6_Step ==
  \A b \in Started :
     /\ ActivateIssued(b) => AllSubmittedCreated(batch_progress'[b])
     /\ ~Rec(b).batch_activated /\ batch_progress'[b].batch_activated
          => AnyCall(b, "activate", passes[b], {"ok"})

C6_NoFailedRow ==
  \A b \in Started :
     Rec(b).batch_activated => Count(b, {REQUEST_ERROR, CREATE_FAILED}) = 0

\* C6: the activation call is issued only by the step that makes the
\* activation check, and that step leaves every outcome other than
\* invalid_row created; activated becomes true only after such a call of
\* the running pass succeeded; and an activated batch has no request_error
\* or create_failed outcome.
C6_ActivationOnlyWhenAllCreated == [][C6_Step]_vars /\ []C6_NoFailedRow

\* The activation check passed at the end of a retry pass.
C6_Witness ==
  \E t \in DOMAIN tasks : tasks[t].kind = "retry" /\ tasks[t].pc = "patch"

\* C7: in an activated batch every outcome that carries a payload is
\* created_and_activated.
C7_ActivatedAllMarked ==
  \A b \in Started :
     Rec(b).batch_activated =>
       \A i \in DOMAIN Rec(b).hospitals :
          Truthy(Rec(b).hospitals[i].payload)
            => Rec(b).hospitals[i].status = ACTIVATED

\* An activated batch of two rows.
C7_Witness ==
  \E b \in Started : Rec(b).batch_activated /\ Len(Rec(b).hospitals) = 2

\* The rows of record r that the claim calls retryable.
RetrySet(r) ==
  {i \in DOMAIN r.hospitals :
     /\ r.hospitals[i].status \notin {CREATED, ACTIVATED, INVALID}
     /\ Truthy(r.hospitals[i].payload)}

RowsOf(items) == {items[k].row : k \in DOMAIN items}

\* The creates a retry pass has issued are its first entries, in order.
C8_Progress ==
  \A t \in DOMAIN tasks :
     tasks[t].kind = "retry" =>
       LET task == tasks[t]
           issued == CallsOf(task.batch_id, "create", task.pass)
           k == IF task.pc = "scheduled" THEN 0
                ELSE IF task.pc = "post" THEN task.idx
                ELSE Len(task.items)
       IN /\ Len(issued) = k
          /\ \A j \in 1..k : issued[j].row = task.items[j].row

C8_Step ==
  /\ reply'.op = "resume" /\ reply'.code = 202 /\ tasks' # tasks =>
       LET b == reply'.batch_id
           task == tasks'[Len(tasks')]
       IN /\ reply'.retry_count = Cardinality(RetrySet(Rec(b)))
          /\ Len(tasks') = Len(tasks) + 1
          /\ task.batch_id = b /\ task.kind = "retry"
          /\ Len(task.items) = Cardinality(RetrySet(Rec(b)))
          /\ RowsOf(task.items) = {Rec(b).hospitals[i].row : i \in RetrySet(Rec(b))}
  /\ \A b \in Started :
       Len(calls'[b]) > Len(calls[b]) =>
         LET new == calls'[b][Len(calls'[b])]
         IN /\ Len(calls'[b]) = Len(calls[b]) + 1
            /\ \E t \in InFlight(b) : tasks[t].pass = new.pass
            /\ new.op = "create" /\ new.pass > 1 =>
                 Rec(b).hospitals[new.row].status
                   \notin {CREATED, ACTIVATED, INVALID}

\* C8: a resume that schedules a retry returns the size of the retry set
\* (outcomes neither created, created_and_activated nor invalid_row, with a
\* payload) and hands exactly those rows to the pass; the pass issues one
\* create per row of the set, in order, and no other; no create of a retry
\* pass is for a row that is invalid_row or already created.
C8_RetrySetExact == [][C8_Step]_vars /\ []C8_Progress

\* A retry pass completed on a batch of an invalid row and a retried row.
C8_Witness ==
  \E b \in Started :
     /\ passes[b] = 2 /\ Rec(b).status = "completed"
     /\ Count(b, {INVALID}) = 1 /\ Len(CallsOf(b, "create", 2)) = 1

C9_Step ==
  reply'.op = "resume" =>
    LET b == reply'.batch_id IN
    /\ b \notin Started => reply'.code = 404
    /\ b \in Started /\ Rec(b).status = "processing" => reply'.code = 409
    /\ b \in Started /\ Rec(b).status = "completed" /\ RetrySet(Rec(b)) = {}
         => reply'.code = 200 /\ reply'.message = "nothing_to_retry"
    /\ b \in Started /\ Rec(b).status = "completed" /\ RetrySet(Rec(b)) # {}
         => reply'.code = 202 /\ reply'.status = "retry_scheduled"
    /\ reply'.code # 202 =>
         UNCHANGED <<batch_progress, tasks, calls, batch_subscribers, queues>>

\* C9: a resume of an unknown id answers not-found, of a processing batch
\* conflict, of a completed batch with an empty retry set nothing_to_retry,
\* and in these three cases leaves every record and the set of passes as
\* they were; only retry_scheduled changes state.
C9_ResumeFrame == [][C9_Step]_vars

\* nothing_to_retry for a completed batch that holds an invalid row.
C9_Witness ==
  \E b \in Started :
     /\ reply.op = "resume" /\ reply.batch_id = b /\ reply.code = 200
     /\ Rec(b).status = "completed" /\ Count(b, {INVALID}) = 1

Processing(b) == b \in Started /\ Rec(b).status = "processing"
Done(b) == b \in Started /\ Rec(b).status = "completed"

\* C10: under LiveSpec (every ready pass is run, every remote call
\* resolves, consumers need not read) a batch that is processing is
\* eventually completed.
C10_PassCompletes == \A b \in BatchIds : Processing(b) ~> Done(b)

\* A retry pass completed without activation while a subscriber of the
\* batch has read none of its messages.
C10_Witness ==
  \E b \in Started, q \in DOMAIN queues :
     /\ Done(b) /\ passes[b] = 2 /\ ~Rec(b).batch_activated
     /\ Count(b, {INVALID}) = 1
     /\ queues[q].open /\ queues[q].batch_id = b /\ Len(queues[q].items) >= 4

\* The first pass of b has completed and no retry pass was scheduled.
FirstPassDone(b) == passes[b] = 1 /\ Rec(b).status = "completed"

\* Row i of the upload was not submittable: its trimmed name or address is
\* empty.
InvalidRow(e) == e.payload.name = <<>> \/ e.payload.address = <<>>

\* The answers to the creates of pass n for row i, in order.
CreateAnswers(b, n, i) ==
  SelectSeq(calls[b], LAMBDA x : x.op = "create" /\ x.pass = n /\ x.row = i)

C11_Rows(b) ==
  /\ Len(Rec(b).hospitals) = Rec(b).total_hospitals
  /\ \A i \in DOMAIN Rec(b).hospitals :
       LET e == Rec(b).hospitals[i]
           ans == CreateAnswers(b, 1, i)
       IN IF InvalidRow(e) THEN ans = <<>> /\ e.status = INVALID
          ELSE /\ Len(ans) = 1
               /\ ans[1].res = "error" => e.status = REQUEST_ERROR
               /\ ans[1].res = "fail" => e.status = CREATE_FAILED
               /\ ans[1].res = "ok" =>
                    e.status = IF Rec(b).batch_activated THEN ACTIVATED ELSE CREATED

C11_Counts(b) ==
  LET H == DOMAIN Rec(b).hospitals
      ok == {i \in H : CreateAnswers(b, 1, i) # <<>>
                        /\ CreateAnswers(b, 1, i)[1].res = "ok"}
      bad == {i \in H : \/ InvalidRow(Rec(b).hospitals[i])
                         \/ /\ CreateAnswers(b, 1, i) # <<>>
                            /\ CreateAnswers(b, 1, i)[1].res \in {"fail", "error"}}
  IN /\ Rec(b).processed_hospitals = Cardinality(ok)
     /\ Rec(b).failed_hospitals = Cardinality(bad)
     /\ Rec(b).batch_activated
          <=> (Cardinality(bad) = 0 /\ AnyCall(b, "activate", 1, {"ok"}))
     /\ Rec(b).batch_activated =>
          \A i \in H : Rec(b).hospitals[i].status = ACTIVATED

\* C11: when the first pass has completed, processedCount is the number of
\* rows whose create succeeded, failedCount the number of rows that were
\* invalid or whose create failed or raised, every outcome carries the
\* status of its row's result, and activated holds iff failedCount = 0 and
\* the activation succeeded; then every outcome is created_and_activated,
\* otherwise the successful rows are created.
C11_FirstPassResult ==
  \A b \in Started : FirstPassDone(b) => C11_Rows(b) /\ C11_Counts(b)

\* A first pass completed over an invalid row and a created row, without
\* activation.
C11_Witness ==
  \E b \in Started :
     /\ FirstPassDone(b) /\ ~Rec(b).batch_activated
     /\ Count(b, {INVALID}) = 1 /\ Count(b, {CREATED}) = 1

\* ------------------------------------------------------ events and handles
\* The handles registered for batch b.
Registered(b) == {batch_subscribers[b][i] : i \in DOMAIN batch_subscribers[b]}

\* The messages this step put on queue q.
Enqueued(q) ==
  IF q \in DOMAIN queues /\ Len(queues'[q].items) > Len(queues[q].items)
  THEN SubSeq(queues'[q].items, Len(queues[q].items) + 1, Len(queues'[q].items))
  ELSE IF q \notin DOMAIN queues THEN queues'[q].items
  ELSE <<>>

OfType(msgs, type) == SelectSeq(msgs, LAMBDA m : m.type = type)

\* This step is the final update of a pass of b.
Finalizes(b) ==
  /\ b \in Started /\ Rec(b).status = "processing"
  /\ batch_progress'[b].status = "completed"

\* C12 as stated: a handle registered before the first pass of its batch
\* began is handed the completed event once over the life of the batch,
\* retry passes included: its queue never holds two of them.
C12_CompletedOnce ==
  \A q \in DOMAIN queues :
     queues[q].open /\ queues[q].early =>
       Len(OfType(queues[q].items, "completed")) <= 1

C12_Step ==
  \A q \in DOMAIN queues' :
     LET b == queues'[q].batch_id
         n == Len(OfType(Enqueued(q), "completed"))
     IN IF b \in BatchIds /\ Finalizes(b) /\ q \in Registered(b)
        THEN /\ n = 1
             /\ Enqueued(q)[Len(Enqueued(q))].type = "completed"
             /\ \E t \in InFlight(b) : Len(tasks') < Len(tasks)
        ELSE n = 0

\* C12 amended: a handle registered for a batch is handed exactly one
\* completed event by every pass (first or retry) that makes its final
\* update while the handle is registered, as the last message of that pass,
\* and by no other step.
C12_CompletedOncePerPass == [][C12_Step]_vars

\* A handle registered before the first pass began holds the completed
\* events of the first pass and of a retry pass.
C12_Witness ==
  \E q \in DOMAIN queues :
     /\ queues[q].open /\ queues[q].early
     /\ Len(OfType(queues[q].items, "completed")) = 2
     /\ passes[queues[q].batch_id] = 2

\* The activation calls of b that the remote answered with 200 or 204.
ActivationsOk(log) == SelectSeq(log, LAMBDA x : x.op = "activate" /\ x.res = "ok")

C13_AtMostOneSuccess ==
  \A b \in BatchIds : Len(ActivationsOk(calls[b])) <= 1

C13_Step ==
  \A q \in DOMAIN queues' :
     LET b == queues'[q].batch_id
         n == Len(OfType(Enqueued(q), "batch_activated"))
     IN IF /\ b \in BatchIds /\ q \in Registered(b)
           /\ Len(ActivationsOk(calls'[b])) > Len(ActivationsOk(calls[b]))
        THEN n = 1
        ELSE n = 0

\* C13: over the life of a batch, first pass and retry passes together, at
\* most one activation call succeeds, and a batch_activated event is put on
\* a handle only by the step in which an activation call succeeds, once.
C13_ActivatedAtMostOnce == [][C13_Step]_vars /\ []C13_AtMostOneSuccess

\* A batch activated by its retry pass is resumed again while a handle
\* still holds its batch_activated event.
C13_Witness ==
  \E q \in DOMAIN queues :
     LET b == queues[q].batch_id IN
     /\ b \in Started /\ queues[q].open /\ passes[b] = 2
     /\ Len(OfType(queues[q].items, "batch_activated")) = 1
     /\ reply.op = "resume" /\ reply.batch_id = b /\ reply.code = 200

C14_Step ==
  \A rows \in Uploads, b \in BatchIds :
     Len(rows) > MAX_HOSPITALS /\ (StartBatch(b, rows) \/ BulkRejected(rows)) =>
       /\ reply'.op = "bulk" /\ reply'.code = 400
       /\ reply'.detail = "Maximum hospitals allowed per upload"
       /\ UNCHANGED <<batch_progress, batch_subscribers, queues, tasks, calls, passes>>

\* C14: an upload of more rows than MAX_HOSPITALS is answered with the
\* 400 error of the row count, and that step creates no record, schedules
\* no pass, issues no remote call and leaves the store and the subscribers
\* as they were.
C14_OversizeRejected == [][C14_Step]_vars

\* An oversize upload is rejected while an earlier batch awaits a create.
C14_Witness ==
  /\ reply.op = "bulk" /\ reply.code = 400
  /\ reply.detail = "Maximum hospitals allowed per upload"
  /\ \E t \in DOMAIN tasks : tasks[t].pc = "post"

\* C15: when a pass (first or retry) has made its final update and every
\* outcome other than invalid_row is created, at least one of them, the
\* pass has called the activation; batches that hold invalid_row outcomes
\* next to created ones included.
C15_ActivationWheneverAllCreated ==
  \A b \in Started :
     /\ Rec(b).status = "completed"
     /\ AllSubmittedCreated(Rec(b))
     /\ Count(b, {CREATED}) >= 1
     => AnyCall(b, "activate", passes[b], ActivateResults)

\* The status an outcome carries for a create answered `res`.
StatusFor(res) ==
  CASE res = "ok" -> {CREATED, ACTIVATED}
    [] res = "fail" -> {CREATE_FAILED}
    [] res = "error" -> {REQUEST_ERROR}
    [] OTHER -> {}

Pending(log) == SelectSeq(log, LAMBDA x : x.res = "pending")

\* The outcome of call x is written in record r.
Written(r, x) ==
  \E i \in DOMAIN r.hospitals :
     r.hospitals[i].row = x.row /\ r.hospitals[i].status \in StatusFor(x.res)

C16_OneInFlight == \A b \in BatchIds : Len(Pending(calls[b])) <= 1

C16_Step ==
  \A b \in Started :
     Len(calls'[b]) > Len(calls[b]) =>
       LET log == calls'[b]
           new == log[Len(log)]
           mine == {i \in 1..(Len(log) - 1) :
                      log[i].pass = new.pass /\ log[i].op = "create"}
       IN /\ Len(log) = Len(calls[b]) + 1
          /\ \A i \in 1..(Len(log) - 1) : log[i].res # "pending"
          /\ \A i \in mine : Written(batch_progress'[b], log[i])
          /\ \A i \in mine : new.op = "create" => log[i].row < new.row
          /\ new.op = "activate" =>
               /\ new.pass = 1 =>
                    /\ Len(batch_progress'[b].hospitals) = Rec(b).total_hospitals
                    /\ \A j \in DOMAIN batch_progress'[b].hospitals :
                         \/ batch_progress'[b].hospitals[j].status = INVALID
                         \/ \E i \in mine : log[i].row = j
               /\ new.pass > 1 =>
                    \A t \in InFlight(b) :
                       \A k \in DOMAIN tasks[t].items :
                          \E i \in mine : log[i].row = tasks[t].items[k].row

\* C16: a batch has at most one remote call in flight; when a pass issues
\* the create of a row, every earlier call is answered and the outcome of
\* every earlier row of the pass is written in the record; and when it
\* issues the activation, the outcome of every row of the pass is written.
C16_RowsSequential == [][C16_Step]_vars /\ []C16_OneInFlight

\* A retry pass awaits the create of its second row.
C16_Witness ==
  \E b \in Started :
     /\ passes[b] = 2
     /\ Len(CallsOf(b, "create", 2)) = 2
     /\ Len(Pending(calls[b])) = 1

\* A message as it was put on a queue: its type and, of a row_update, the
\* row and the status.
Sig(m) ==
  IF m.type = "row_update" THEN <<m.type, m.data.row, m.data.status>>
  ELSE <<m.type>>

Sigs(msgs) == [i \in DOMAIN msgs |-> Sig(msgs[i])]

\* The create of b answered in this step, if any.
AnsweredNow(b, op) ==
  {i \in DOMAIN calls[b] :
     calls[b][i].op = op /\ calls[b][i].res = "pending"
       /\ calls'[b][i].res # "pending"}

\* The row outcomes this step wrote in the record of b, in the order of
\* the writes: the entries a first pass appended, the entry a retry pass
\* overwrote.
WrittenNow(b) ==
  LET old == Rec(b).hospitals
      new == batch_progress'[b].hospitals
      ans == AnsweredNow(b, "create")
  IN IF Len(new) > Len(old)
     THEN [k \in 1..(Len(new) - Len(old)) |->
             <<"row_update", new[Len(old) + k].row, new[Len(old) + k].status>>]
     ELSE IF ans # {}
     THEN LET i == CHOOSE i \in ans : TRUE
          IN <<<<"row_update", calls[b][i].row, new[calls[b][i].row].status>>>>
     ELSE <<>>

\* The events of this step of a pass of b, in order.
EventsNow(b) ==
  WrittenNow(b)
    \o (IF \E i \in AnsweredNow(b, "activate") : calls'[b][i].res = "ok"
        THEN <<<<"batch_activated">>>> ELSE <<>>)
    \o (IF Finalizes(b) THEN <<<<"completed">>>> ELSE <<>>)

C17_Step ==
  \A q \in DOMAIN queues :
     LET b == queues[q].batch_id IN
     /\ Sigs(Enqueued(q)) =
          IF b \in Started /\ q \in Registered(b) THEN EventsNow(b) ELSE <<>>
     /\ Len(queues'[q].items) < Len(queues[q].items) /\ queues'[q].open =>
          /\ queues'[q].items = Tail(queues[q].items)
          /\ reply'.type = Head(queues[q].items).type

\* Between two passes the last message a handle was handed is a completed.
C17_CompletedLast ==
  \A q \in DOMAIN queues :
     LET b == queues[q].batch_id IN
     b \in Started /\ Rec(b).status = "completed" /\ queues[q].items # <<>> =>
       queues[q].items[Len(queues[q].items)].type = "completed"

\* C17: every step of a pass puts on each handle registered for the batch
\* one row_update per outcome the step wrote, in the order of the writes and
\* with the written row and status, then batch_activated if the activation
\* succeeded in the step, then completed if the step is the final update,
\* and nothing else; nothing is put on other handles; a consumer takes
\* messages from the front; so no row_update of a pass follows its
\* completed.
C17_EventOrder == [][C17_Step]_vars /\ []C17_CompletedLast

\* A handle holds the events of a whole first pass of two rows with
\* activation.
C17_Witness ==
  \E q \in DOMAIN queues :
     /\ queues[q].open
     /\ Sigs(queues[q].items) =
          << <<"row_update", 1, CREATED>>, <<"row_update", 2, CREATED>>,
             <<"batch_activated">>, <<"completed">> >>

\* Every batch id a handle can be registered under, and every handle the
\* service created or may be handed.
AllIds == BatchIds \cup {UnknownId}
Handles == 1..(MaxSubs + 1)

\* This step is a step of a pass of b, the only code that publishes for b:
\* the task of b moved on or returned.
Publishes(b) ==
  /\ b \in Started
  /\ \E t \in InFlight(b) : \A u \in DOMAIN tasks' : tasks'[u] # tasks[t]

C18_Step ==
  \A q \in DOMAIN queues :
     /\ Enqueued(q) # <<>> =>
          \E b \in BatchIds : Publishes(b) /\ q \in Registered(b)
     /\ \A b \in BatchIds :
          Publishes(b) /\ q \in Registered(b) =>
            \A p \in Registered(b) : Enqueued(p) = Enqueued(q)

\* The handles registered for a batch are the open connections to it, each
\* once, and a closed connection holds nothing.
C18_Handles ==
  /\ \A b \in AllIds :
       /\ Registered(b) = {q \in DOMAIN queues :
                             queues[q].open /\ queues[q].batch_id = b}
       /\ Cardinality(Registered(b)) = Len(batch_subscribers[b])
  /\ \A q \in DOMAIN queues : ~queues[q].open => queues[q].items = <<>>

\* unsubscribe leaves the subscribers as they are for a handle that is not
\* registered under the batch id, and a second unsubscribe changes nothing.
C18_Idempotent ==
  \A b \in AllIds, q \in Handles :
     LET once == unsubscribe(batch_subscribers, b, q) IN
     /\ q \notin Registered(b) => once = batch_subscribers
     /\ unsubscribe(once, b, q) = once
     /\ \A i \in DOMAIN once[b] : once[b][i] # q

\* C18: a step that publishes for a batch puts its messages on the handles
\* registered for that batch at that moment, the same messages on each, and
\* on no other handle: none registered for another batch id, none already
\* unsubscribed.  unsubscribe of a handle that is not registered (a second
\* call, another batch id) leaves the subscribers unchanged.
C18_PublishExact == [][C18_Step]_vars /\ []C18_Handles /\ []C18_Idempotent

\* A pass completed while one handle was registered for its batch and
\* another for a different batch id: the first holds the events, the
\* second nothing.
C18_Witness ==
  \E p, q \in DOMAIN queues :
     /\ queues[p].open /\ queues[q].open
     /\ queues[p].batch_id \in Started /\ queues[q].batch_id \notin Started
     /\ Rec(queues[p].batch_id).status = "completed"
     /\ Len(queues[p].items) >= 2 /\ queues[q].items = <<>>

\* The rows of the entries of record r, in list order.
RowFields(r) == [i \in DOMAIN r.hospitals |-> r.hospitals[i].row]

\* While the first pass runs the list holds the rows written so far, from
\* 1 on; once it has completed, one entry per row of the upload.
C19_Shape ==
  \A b \in Started :
     /\ RowFields(Rec(b)) = [i \in 1..Len(Rec(b).hospitals) |-> i]
     /\ Len(Rec(b).hospitals) <= Rec(b).total_hospitals
     /\ passes[b] > 1 \/ Rec(b).status = "completed" =>
          Len(Rec(b).hospitals) = Rec(b).total_hospitals

C19_Step ==
  \A b \in Started :
     /\ batch_progress'[b].total_hospitals = Rec(b).total_hospitals
     /\ passes[b] > 1 =>
          /\ RowFields(batch_progress'[b]) = RowFields(Rec(b))
          /\ \A i \in DOMAIN Rec(b).hospitals :
               LET old == Rec(b).hospitals[i]
                   new == batch_progress'[b].hospitals[i]
               IN new # old =>
                    \/ /\ \E k \in AnsweredNow(b, "create") : calls[b][k].row = i
                       /\ \E t \in InFlight(b) : i \in RowsOf(tasks[t].items)
                    \/ /\ \E k \in AnsweredNow(b, "activate") : calls'[b][k].res = "ok"
                       /\ old.status = CREATED
                       /\ new = [old EXCEPT !.status = ACTIVATED]

\* C19: the outcome list of a batch holds the rows 1, 2, ... in order, each
\* once, and totalCount entries once the first pass has completed; no step
\* changes totalCount; a step of a retry pass changes neither the length of
\* the list nor any row field, and the only outcome its row loop changes is
\* that of the row whose create was just answered, a row of its retry set.
C19_OutcomeListStable == [][C19_Step]_vars /\ []C19_Shape

\* A retry pass completed on a batch of two rows of which it retried one,
\* with success.
C19_Witness ==
  \E b \in Started :
     /\ passes[b] = 2 /\ Rec(b).status = "completed"
     /\ Len(Rec(b).hospitals) = 2
     /\ Len(CallsOf(b, "create", 2)) = 1
     /\ AllCalls(b, "create", 2, {"ok"})

\* C20: the record a consumer is sent with a completed event is the record
\* of the final update: its status is completed, also when the batch was
\* resumed between the broadcast and the q.get.
C20_CompletedDataFinal ==
  reply.op = "ws" /\ reply.type = "completed" => reply.data.status = "completed"

\* C21: in every state of every batch, through the first pass and every
\* retry pass, 0 <= processedCount <= totalCount and
\* 0 <= failedCount <= totalCount.
C21_CountersBounded ==
  \A b \in Started :
     /\ 0 <= Rec(b).processed_hospitals
     /\ Rec(b).processed_hospitals <= Rec(b).total_hospitals
     /\ 0 <= Rec(b).failed_hospitals
     /\ Rec(b).failed_hospitals <= Rec(b).total_hospitals

\* The last pass of b ended with every outcome created and its activation
\* call failing (a status other than 200/204, or an exception).
ActivationFailed(b) ==
  /\ b \in Started /\ Rec(b).status = "completed"
  /\ Rec(b).hospitals # <<>>
  /\ \A i \in DOMAIN Rec(b).hospitals : Rec(b).hospitals[i].status = CREATED
  /\ AnyCall(b, "activate", passes[b], {"fail", "error"})

C22_Step ==
  \A b \in BatchIds :
     ActivationFailed(b) =>
       /\ batch_progress'[b] = Rec(b)
       /\ ~batch_progress'[b].batch_activated
       /\ calls'[b] = calls[b]
       /\ passes'[b] = passes[b]
       /\ InFlight(b) = {} /\ \A t \in DOMAIN tasks' : tasks'[t].batch_id # b
       /\ reply'.op = "resume" /\ reply'.batch_id = b =>
            reply'.code = 200 /\ reply'.message = "nothing_to_retry"

\* C22: once a pass has ended with every outcome created and the activation
\* failing, every resume of the batch answers nothing_to_retry, no pass is
\* scheduled and no remote call made for it again, and the record, with
\* activated = false, stays as it is.
C22_NoSecondActivation == [][C22_Step]_vars

\* A retry pass ended with every outcome created and its activation
\* failing, and the batch was resumed again.
C22_Witness ==
  \E b \in BatchIds :
     /\ ActivationFailed(b) /\ passes[b] = 2
     /\ reply.op = "resume" /\ reply.batch_id = b /\ reply.code = 200

\* A message as a consumer can place it in the stream of its batch: its
\* type and, of a row_update, the row.
Mark(m) == IF m.type = "row_update" THEN <<m.type, m.data.row>> ELSE <<m.type>>

Marks(msgs) == [i \in DOMAIN msgs |-> Mark(msgs[i])]

\* The events pass n has published with record rec and call log `log`, the
\* batch having `last` passes scheduled: a row_update per outcome written
\* (the first pass writes the rows of the list, a retry pass the rows whose
\* create was answered), batch_activated after a successful activation,
\* completed after the final update.
PassStream(rec, log, last, n) ==
  LET answered == SelectSeq(log, LAMBDA x : x.op = "create" /\ x.pass = n
                                             /\ x.res # "pending")
      rows == IF n = 1 THEN [i \in 1..Len(rec.hospitals) |-> i]
              ELSE [k \in 1..Len(answered) |-> answered[k].row]
  IN [k \in 1..Len(rows) |-> <<"row_update", rows[k]>>]
       \o (IF \E i \in DOMAIN log :
                log[i].op = "activate" /\ log[i].pass = n /\ log[i].res = "ok"
           THEN << <<"batch_activated">> >> ELSE <<>>)
       \o (IF n < last \/ rec.status = "completed"
           THEN << <<"completed">> >> ELSE <<>>)

RECURSIVE StreamUpTo(_, _, _, _)
StreamUpTo(rec, log, last, n) ==
  IF n = 0 THEN <<>>
  ELSE StreamUpTo(rec, log, last, n - 1) \o PassStream(rec, log, last, n)

\* Everything published for batch b so far, and after this step.
Stream(b) ==
  IF b \in Started THEN StreamUpTo(Rec(b), calls[b], passes[b], passes[b]) ELSE <<>>

StreamNext(b) ==
  IF b \in DOMAIN batch_progress'
  THEN StreamUpTo(batch_progress'[b], calls'[b], passes'[b], passes'[b]) ELSE <<>>

IsSuffix(s, t) ==
  Len(s) <= Len(t) /\ s = SubSeq(t, Len(t) - Len(s) + 1, Len(t))

\* What an open connection has still to read is the end of the stream of
\* its batch, up to the last event published: nothing in between is
\* missing.
C23_NoGap ==
  \A q \in DOMAIN queues :
     queues[q].open /\ queues[q].batch_id \in BatchIds =>
       IsSuffix(Marks(queues[q].items), Stream(queues[q].batch_id))

\* This step sent the head of queue q to its consumer.
Delivered(q) ==
  /\ reply'.op = "ws" /\ reply'.queue = q
  /\ reply'.type \in {"row_update", "batch_activated", "completed"}

C23_Step ==
  /\ \A q \in DOMAIN queues' \ DOMAIN queues :
       LET b == queues'[q].batch_id IN
       /\ queues'[q].items = <<>> /\ q \in {batch_subscribers'[b][i] :
                                             i \in DOMAIN batch_subscribers'[b]}
       /\ b \in Started =>
            /\ reply'.op = "ws" /\ reply'.queue = q /\ reply'.type = "current"
            /\ reply'.data = Rec(b)
            /\ batch_progress' = batch_progress /\ calls' = calls
  /\ \A q \in DOMAIN queues :
       LET b == queues[q].batch_id IN
       queues[q].open /\ queues'[q].open /\ b \in BatchIds =>
         /\ q \in Registered(b)
         /\ IF Delivered(q)
            THEN /\ queues[q].items # <<>>
                 /\ reply'.type = Head(queues[q].items).type
                 /\ queues'[q].items = Tail(queues[q].items)
                 /\ StreamNext(b) = Stream(b)
            ELSE /\ Len(queues'[q].items) - Len(queues[q].items)
                      = Len(StreamNext(b)) - Len(Stream(b))
                 /\ Len(queues'[q].items) >= Len(queues[q].items)

\* C23: the stream handler registers its queue and sends the record as it
\* is in one step, so the snapshot holds every outcome written before and
\* the queue is handed every event published after: each step adds to the
\* queue of an open connection as many messages as were published for its
\* batch, the queue loses a message only by sending its head to the
\* consumer, and what it holds is the end of the batch's stream without a
\* gap, the completed of a pass that finalizes after the connect included.
C23_ConsumerMissesNothing == [][C23_Step]_vars /\ []C23_NoGap

\* A consumer connected while a first pass of two rows had written one
\* outcome; the pass completed and the queue holds the second row_update
\* and the completed.
C23_Witness ==
  \E q \in DOMAIN queues :
     LET b == queues[q].batch_id IN
     /\ queues[q].open /\ ~queues[q].early /\ b \in Started
     /\ passes[b] = 1 /\ Rec(b).status = "completed"
     /\ Marks(queues[q].items) = << <<"row_update", 2>>, <<"completed">> >>

====
